---- MODULE Spec2Model ----
(***************************************************************************)
(* Rapids Academy Player Stats (Rapids_academy_player_stats.py).           *)
(*                                                                         *)
(* The model follows one Streamlit process: the per-player CSV files in    *)
(* player_data/, the process-wide st.cache_data memo in front of           *)
(* load_data, and the script runs of the browser sessions.  A script run   *)
(* is player_view's load_data call followed by the one widget event the    *)
(* run was started for (form submission, delete button, edited widget, or  *)
(* none).  pandas' to_csv / read_csv are modelled on cell text, with       *)
(* read_csv's missing-value tokens and its column-wise type inference.     *)
(***************************************************************************)
EXTENDS Integers, Sequences, FiniteSets, TLC

VARIABLES files, cache, sess, last

vars == <<files, cache, sess, last>>

(***************************************************************************)
(* Bounds of the model.                                                    *)
(***************************************************************************)
\* rows a player's collection may grow to under Spec
MaxRows == 2
\* rows a player's collection may grow to under SpecRace
MaxRaceRows == 2
\* length of the collections handed to the recent-matches views (SpecRecent)
MaxRecentLen == 6

(***************************************************************************)
(* Program constants.                                                      *)
(***************************************************************************)
\* st.number_input(display_name, 0, 200, 0): the largest number a cell holds
\* (minutes_played stays below it: st.number_input("Minutes Played", 0, 120, 0))
MaxStat == 200
\* .head(5) of view_stats and show_team_overview
RecentPlayer == 5
\* .head(3) of show_individual_stats
RecentCoach == 3

Range(f) == {f[i] : i \in DOMAIN f}

Min(a, b) == IF a < b THEN a ELSE b

(***************************************************************************)
(* get_position_config: position -> ordered statistic names.               *)
(***************************************************************************)
Positions ==
    <<"Goalkeeper", "Center Back", "Fullback", "Defensive Midfielder/Pivot",
      "Attacking Midfielder", "Wide Forward", "Center Forward">>

get_position_config ==
    ("Goalkeeper" :> <<"saves", "clean_sheets", "goals_conceded">>) @@
    ("Center Back" :> <<"passes_to_fullback", "passes_into_red_zone", "tackles_won",
                        "aerial_duels_won", "turnovers", "ball_recoveries">>) @@
    ("Fullback" :> <<"red_zone_passes", "passes_behind_line", "defensive_1v1_won",
                     "turnovers", "crosses", "assists">>) @@
    ("Defensive Midfielder/Pivot" :> <<"ball_recoveries", "passes_completed", "turnovers",
                                       "creating_3_backline", "forward_passes_10plus">>) @@
    ("Attacking Midfielder" :> <<"redzone_receptions", "passes_behind_line", "shots",
                                 "shots_on_target", "assists", "goals", "ball_recoveries">>) @@
    ("Wide Forward" :> <<"receptions_behind_line", "paz_crosses", "assists", "goals",
                         "ball_recoveries", "passes_behind_line">>) @@
    ("Center Forward" :> <<"receptions_behind_line", "assists", "goals", "ball_recoveries",
                           "successful_holdup_plays", "forced_errors">>)

BaseColumns == <<"date", "opponent", "minutes_played">>

(***************************************************************************)
(* Cell values of a DataFrame.  One record shape for all of them, so that  *)
(* any two values can be compared.                                         *)
(*   str: a Python string      int: int64       float: float64 (whole)    *)
(*   nan: a missing value      datetime: a Timestamp at midnight          *)
(***************************************************************************)
StrV(s) == [t |-> "str", s |-> s, n |-> 0]
IntV(n) == [t |-> "int", s |-> "", n |-> n]
FltV(n) == [t |-> "float", s |-> "", n |-> n]
TsV(s) == [t |-> "datetime", s |-> s, n |-> 0]
NaN == [t |-> "nan", s |-> "", n |-> 0]

IsNum(v) == v.t \in {"int", "float"}

\* A DataFrame: ordered column names and the rows, each a function on the
\* columns.  Row i of a frame carries index label i - 1 (a RangeIndex: what
\* read_csv and concat(ignore_index=True) produce).
Frame(cols, rows) == [isNone |-> FALSE, cols |-> cols, rows |-> rows]
None == [isNone |-> TRUE, cols |-> <<>>, rows |-> <<>>]

EmptyRow == [c \in {} |-> NaN]

(***************************************************************************)
(* Text of numbers, as to_csv writes and read_csv reads them.              *)
(***************************************************************************)
IntText == [n \in 0..MaxStat |-> ToString(n)]
FloatText == [n \in 0..MaxStat |-> ToString(n) \o ".0"]

IntTexts == {IntText[n] : n \in 0..MaxStat}
FloatTexts == {FloatText[n] : n \in 0..MaxStat}

IsIntText(s) == s \in IntTexts
IsFloatText(s) == s \in FloatTexts

\* int("12") = 12, float("12.0") = 12.0
TextNumber ==
    [s \in IntTexts \cup FloatTexts |->
       CHOOSE n \in 0..MaxStat : IntText[n] = s \/ FloatText[n] = s]

\* read_csv's default na_values (keep_default_na=True)
NaTokens ==
    {"", "#N/A", "#N/A N/A", "#NA", "-1.#IND", "-1.#QNAN", "-NaN", "-nan",
     "1.#IND", "1.#QNAN", "<NA>", "N/A", "NA", "NULL", "NaN", "None", "n/a",
     "nan", "null"}

(***************************************************************************)
(* to_csv(filename, index=False): header line and one text line per row.   *)
(***************************************************************************)
FormatCell(v) ==
    CASE v.t = "str" -> v.s
      [] v.t = "int" -> IntText[v.n]
      [] v.t = "float" -> FloatText[v.n]
      [] v.t = "datetime" -> v.s
      [] OTHER -> ""

NoFile == [exists |-> FALSE, header |-> <<>>, lines |-> <<>>]

to_csv(data) ==
    [exists |-> TRUE,
     header |-> data.cols,
     lines |-> [i \in 1..Len(data.rows) |->
                  [j \in 1..Len(data.cols) |-> FormatCell(data.rows[i][data.cols[j]])]]]

(***************************************************************************)
(* read_csv(filename): the type of a column is inferred from all its       *)
(* cells: missing-value tokens become NaN; a column whose other cells are  *)
(* all whole numbers is int64, or float64 once a cell is missing or        *)
(* written as a float; any other column holds its text as strings.         *)
(***************************************************************************)
ParseColumn(texts) ==
    LET present == {i \in DOMAIN texts : texts[i] \notin NaTokens}
        allInt == \A i \in present : IsIntText(texts[i])
        allNum == \A i \in present : IsIntText(texts[i]) \/ IsFloatText(texts[i])
    IN  [i \in DOMAIN texts |->
           IF i \notin present THEN NaN
           ELSE IF allInt /\ present = DOMAIN texts THEN IntV(TextNumber[texts[i]])
           ELSE IF allNum THEN FltV(TextNumber[texts[i]])
           ELSE StrV(texts[i])]

ColumnIndex(header, col) == CHOOSE j \in 1..Len(header) : header[j] = col

read_csv(file) ==
    LET colvals == [j \in 1..Len(file.header) |->
                      ParseColumn([i \in 1..Len(file.lines) |-> file.lines[i][j]])]
    IN  Frame(file.header,
              [i \in 1..Len(file.lines) |->
                 [c \in Range(file.header) |-> colvals[ColumnIndex(file.header, c)][i]]])

(***************************************************************************)
(* File names and player names.  The string functions are tabulated on the *)
(* names of the model:                                                     *)
(*   Filename:  f"player_data/{player_name.lower().replace(' ', '_')}.csv" *)
(*   TitleName: f.replace('.csv', '').replace('_', ' ').title()            *)
(***************************************************************************)
SidebarNames == {"jane doe"}

Filename ==
    ("jane doe" :> "player_data/jane_doe.csv") @@
    ("Jane Doe" :> "player_data/jane_doe.csv")

TitleName == ("player_data/jane_doe.csv" :> "Jane Doe")

FileNames == Range(Filename)

PlayerNames == DOMAIN Filename

\* get_all_players: the title-cased names of the files of player_data/, or
\* nothing when the directory (made by the first save_data) is not there
get_all_players(fs) == {TitleName[f] : f \in {g \in FileNames : fs[g].exists}}

(***************************************************************************)
(* Dates.  date_input yields a calendar date; add_match_view stores        *)
(* match_date.strftime('%Y-%m-%d').  Stored dates are compared as pandas   *)
(* compares them: ISO text (or the Timestamps to_datetime makes of it)     *)
(* orders as the calendar does.                                            *)
(***************************************************************************)
Date(y, m, d) == [y |-> y, m |-> m, d |-> d]

Pad2(n) == IF n < 10 THEN "0" \o ToString(n) ELSE ToString(n)

strftime(date) == ToString(date.y) \o "-" \o Pad2(date.m) \o "-" \o Pad2(date.d)

AllDates == {Date(2024, 3, 1), Date(2024, 3, 8)}

DateOrdinal(date) == date.y * 10000 + date.m * 100 + date.d

IsoText == [date \in AllDates |-> strftime(date)]

\* the sort key of a cell of the date column; missing values sort last
DateKey(v) ==
    IF v.t \in {"str", "datetime"} /\ \E date \in AllDates : IsoText[date] = v.s
    THEN DateOrdinal(CHOOSE date \in AllDates : IsoText[date] = v.s)
    ELSE 0

(***************************************************************************)
(* load_data without its memo: lines 40-54.                                *)
(***************************************************************************)
RECURSIVE Flatten(_)
Flatten(seqs) == IF seqs = <<>> THEN <<>> ELSE Head(seqs) \o Flatten(Tail(seqs))

default_columns ==
    BaseColumns \o Flatten([i \in 1..Len(Positions) |-> get_position_config[Positions[i]]])

\* the columns of `columns`, in order and once each, that are not in `have`
RECURSIVE MissingColumns(_, _)
MissingColumns(have, columns) ==
    IF columns = <<>> THEN <<>>
    ELSE IF Head(columns) \in have THEN MissingColumns(have, Tail(columns))
    ELSE <<Head(columns)>> \o MissingColumns(have \cup {Head(columns)}, Tail(columns))

\* for col in columns: if col not in data.columns: data[col] = value
AddMissingColumns(data, columns, value) ==
    LET cols == data.cols \o MissingColumns(Range(data.cols), columns)
    IN  Frame(cols,
              [i \in 1..Len(data.rows) |->
                 [c \in Range(cols) |->
                    IF c \in Range(data.cols) THEN data.rows[i][c] ELSE value]])

load_data_file(player_name, fs) ==
    IF player_name = "" THEN None
    ELSE IF fs[Filename[player_name]].exists
         THEN AddMissingColumns(read_csv(fs[Filename[player_name]]), default_columns, IntV(0))
         ELSE None

(***************************************************************************)
(* @st.cache_data: a process-wide memo keyed by the argument.  A call      *)
(* returns a copy of the stored value, so callers never alter the memo.    *)
(***************************************************************************)
Miss == [hit |-> FALSE, val |-> None]

cache_clear == [name \in PlayerNames |-> Miss]

load_data(player_name, fs, memo) ==
    IF memo[player_name].hit
    THEN [data |-> memo[player_name].val, cache |-> memo]
    ELSE LET data == load_data_file(player_name, fs)
         IN  [data |-> data,
              cache |-> [memo EXCEPT ![player_name] = [hit |-> TRUE, val |-> data]]]

save_data(data, player_name, fs) == [fs EXCEPT ![Filename[player_name]] = to_csv(data)]

(***************************************************************************)
(* pd.concat([data, pd.DataFrame([new_match])], ignore_index=True):        *)
(* the union of the columns, NaN where a frame has no such column, and a   *)
(* numeric column holding a NaN becomes float64.                           *)
(***************************************************************************)
Upcast(rows, cols) ==
    LET floats == {c \in Range(cols) :
                     /\ \A i \in DOMAIN rows : rows[i][c].t \in {"int", "float", "nan"}
                     /\ \E i \in DOMAIN rows : rows[i][c].t \in {"float", "nan"}}
    IN  [i \in DOMAIN rows |->
           [c \in Range(cols) |->
              IF c \in floats /\ rows[i][c].t = "int" THEN FltV(rows[i][c].n) ELSE rows[i][c]]]

concat(a, b) ==
    LET NotInA(c) == c \notin Range(a.cols)
        cols == a.cols \o SelectSeq(b.cols, NotInA)
        Widen(row) == [c \in Range(cols) |-> IF c \in DOMAIN row THEN row[c] ELSE NaN]
        rows == [i \in 1..Len(a.rows) |-> Widen(a.rows[i])] \o
                [i \in 1..Len(b.rows) |-> Widen(b.rows[i])]
    IN  Frame(cols, Upcast(rows, cols))

(***************************************************************************)
(* add_match_view, lines 304-331.                                          *)
(***************************************************************************)
\* mutant of validate: the minutes check is left out
validate_opponent_only(opponent, minutes) ==
    IF opponent = "" THEN "Please enter opponent team name" ELSE "ok"

\* lines 305-311: the two checks, in the order of the code
validate(opponent, minutes) ==
    IF opponent = "" THEN "Please enter opponent team name"
    ELSE IF minutes = 0 THEN "Please enter minutes played"
    ELSE "ok"

\* lines 314-321: new_match, as a one-row frame (keys in insertion order)
new_match(date, opponent, minutes, stats, position) ==
    LET statcols == get_position_config[position]
        row == [c \in Range(BaseColumns) \cup Range(statcols) |->
                  IF c = "date" THEN StrV(strftime(date))
                  ELSE IF c = "opponent" THEN StrV(opponent)
                  ELSE IF c = "minutes_played" THEN IntV(minutes)
                  ELSE IntV(stats[c])]
    IN  Frame(BaseColumns \o statcols, <<row>>)

(***************************************************************************)
(* delete_match, lines 175-180.  data.drop(index) raises KeyError for a    *)
(* label that is not in the index, before anything is saved.               *)
(***************************************************************************)
Labels(data) == 0..(Len(data.rows) - 1)

\* mutant of drop: the label is taken for a 1-based position
drop_position(data, index) ==
    Frame(data.cols,
          [i \in 1..(Len(data.rows) - 1) |->
             IF i < index THEN data.rows[i] ELSE data.rows[i + 1]])

drop(data, index) ==
    Frame(data.cols,
          [i \in 1..(Len(data.rows) - 1) |->
             IF i < index + 1 THEN data.rows[i] ELSE data.rows[i + 1]])

\* mutant of delete_match: st.cache_data.clear() is left out
delete_match_keeps_cache(data, index, player_name, fs, memo) ==
    IF index \notin Labels(data)
    THEN [raised |-> TRUE, data |-> data, files |-> fs, cache |-> memo]
    ELSE [raised |-> FALSE,
          data |-> drop(data, index),
          files |-> save_data(drop(data, index), player_name, fs),
          cache |-> memo]

delete_match(data, index, player_name, fs, memo) ==
    IF index \notin Labels(data)
    THEN [raised |-> TRUE, data |-> data, files |-> fs, cache |-> memo]
    ELSE [raised |-> FALSE,
          data |-> drop(data, index),
          files |-> save_data(drop(data, index), player_name, fs),
          cache |-> cache_clear]

(***************************************************************************)
(* show_stats_summary, lines 72-96: the sums of the position's statistics  *)
(* that are columns of the data, and the names of those that are not.      *)
(***************************************************************************)
\* data[col].sum(): missing values are skipped
RECURSIVE SumFirst(_, _, _)
SumFirst(rows, col, k) ==
    IF k = 0 THEN 0
    ELSE (IF IsNum(rows[k][col]) THEN rows[k][col].n ELSE 0) + SumFirst(rows, col, k - 1)

SumColumn(rows, col) == SumFirst(rows, col, Len(rows))

IsEmpty(data) == data.isNone \/ Len(data.rows) = 0

NoSummary == [shown |-> FALSE, totals |-> <<>>, missing |-> <<>>]

show_stats_summary(data, position) ==
    IF IsEmpty(data) THEN NoSummary
    ELSE LET position_stats == get_position_config[position]
             InData(stat) == stat \in Range(data.cols)
             NotInData(stat) == stat \notin Range(data.cols)
             available_stats == SelectSeq(position_stats, InData)
         IN  [shown |-> TRUE,
              totals |-> [stat \in Range(available_stats) |-> SumColumn(data.rows, stat)],
              missing |-> SelectSeq(position_stats, NotInData)]

(***************************************************************************)
(* plot_stat_trends, line 104: data['date'] = pd.to_datetime(data['date']) *)
(* assigns into the caller's frame, which manage_matches then receives.    *)
(***************************************************************************)
to_datetime(v) == IF v.t = "str" THEN TsV(v.s) ELSE v

plot_stat_trends(data) ==
    IF IsEmpty(data) THEN data
    ELSE Frame(data.cols,
               [i \in 1..Len(data.rows) |->
                  [data.rows[i] EXCEPT !["date"] = to_datetime(data.rows[i]["date"])]])

(***************************************************************************)
(* data.sort_values('date', ascending=False): the index labels in an order *)
(* of descending date.  The default kind, quicksort, is not stable: the    *)
(* order of rows with equal dates is whatever the sort leaves, so every    *)
(* descending order is an outcome.                                         *)
(***************************************************************************)
RECURSIVE DescendingOrders(_, _)
DescendingOrders(key, labels) ==
    IF labels = {} THEN {<<>>}
    ELSE LET top == {i \in labels : \A j \in labels : key[i] >= key[j]}
         IN  UNION {{<<i>> \o rest : rest \in DescendingOrders(key, labels \ {i})} : i \in top}

\* mutant of sort_values: ascending=False is left out
sort_values_ascending(data) ==
    DescendingOrders([i \in Labels(data) |-> 0 - DateKey(data.rows[i + 1]["date"])],
                     Labels(data))

sort_values(data) ==
    DescendingOrders([i \in Labels(data) |-> DateKey(data.rows[i + 1]["date"])], Labels(data))

head(order, n) == SubSeq(order, 1, Min(n, Len(order)))

(***************************************************************************)
(* State.                                                                  *)
(*   files  the CSV file of each file name, or NoFile                      *)
(*   cache  the st.cache_data memo of load_data, by player name            *)
(*   sess   each browser session: where its script run is, the sidebar's   *)
(*          player name and position, the frame player_view loaded, and    *)
(*          the outcome its last event reported                            *)
(*   last   the last event handled: its inputs, the frame it was given,    *)
(*          the frame it left and what it displayed                        *)
(***************************************************************************)
Sessions == {1, 2}

NoReport == [kind |-> "", opponent |-> ""]

IdleSession == [pc |-> "idle", player |-> "", position |-> "", data |-> None,
                reported |-> NoReport]

NoLast ==
    [op |-> "none", result |-> "", s |-> 0, player |-> "", position |-> "",
     index |-> 0, n |-> 0, record |-> EmptyRow, prior |-> None, out |-> None,
     summary |-> NoSummary, recent |-> <<>>]

Init ==
    /\ files = [f \in FileNames |-> NoFile]
    /\ cache = cache_clear
    /\ sess = [s \in Sessions |-> IdleSession]
    /\ last = NoLast

\* the end of a script run: the session waits for the next event
Finish(s, kind, opponent) ==
    sess' = [sess EXCEPT ![s] = [IdleSession EXCEPT
                                   !.reported = IF kind = "" THEN sess[s].reported
                                                ELSE [kind |-> kind, opponent |-> opponent]]]

(***************************************************************************)
(* player_view, lines 256-259: a script run starts by loading the player's *)
(* data, or by making an empty frame of the position's columns.            *)
(***************************************************************************)
empty_frame(position) == Frame(BaseColumns \o get_position_config[position], <<>>)

player_view(s, names, positions) ==
    /\ sess[s].pc = "idle"
    /\ \E player_name \in names, position \in positions :
          LET loaded == load_data(player_name, files, cache)
              data == IF loaded.data.isNone THEN empty_frame(position) ELSE loaded.data
          IN  /\ cache' = loaded.cache
              /\ sess' = [sess EXCEPT ![s] = [@ EXCEPT !.pc = "loaded",
                                                       !.player = player_name,
                                                       !.position = position,
                                                       !.data = data]]
    /\ UNCHANGED <<files, last>>

(***************************************************************************)
(* add_match_view, lines 304-331: the submitted form.                      *)
(***************************************************************************)
StatInputs(position, values) == [Range(get_position_config[position]) -> values]

\* mutant of add_match_view: the row is appended to what the file holds at
\* the time of the save, not to the frame the run loaded
add_match_view_reloading(s, dates, opponents, minutes, statvalues, maxrows) ==
    /\ sess[s].pc = "loaded"
    /\ \E match_date \in dates, opponent \in opponents, mins \in minutes,
          stats \in StatInputs(sess[s].position, statvalues) :
          LET fresh == load_data_file(sess[s].player, files)
              data == IF fresh.isNone THEN sess[s].data ELSE fresh
              player_name == sess[s].player
              verdict == validate(opponent, mins)
              row == new_match(match_date, opponent, mins, stats, sess[s].position)
              event == [NoLast EXCEPT !.op = "add", !.s = s, !.player = player_name,
                                      !.position = sess[s].position,
                                      !.record = row.rows[1], !.prior = sess[s].data]
          IN  IF verdict # "ok"
              THEN /\ last' = [event EXCEPT !.result = verdict, !.out = sess[s].data]
                   /\ Finish(s, "error", opponent)
                   /\ UNCHANGED <<files, cache>>
              ELSE /\ Len(data.rows) < maxrows
                   /\ files' = save_data(concat(data, row), player_name, files)
                   /\ cache' = cache_clear
                   /\ last' = [event EXCEPT !.result = "ok", !.out = concat(data, row)]
                   /\ Finish(s, "added", opponent)

add_match_view(s, dates, opponents, minutes, statvalues, maxrows) ==
    /\ sess[s].pc = "loaded"
    /\ \E match_date \in dates, opponent \in opponents, mins \in minutes,
          stats \in StatInputs(sess[s].position, statvalues) :
          LET data == sess[s].data
              player_name == sess[s].player
              verdict == validate(opponent, mins)
              row == new_match(match_date, opponent, mins, stats, sess[s].position)
              event == [NoLast EXCEPT !.op = "add", !.s = s, !.player = player_name,
                                      !.position = sess[s].position,
                                      !.record = row.rows[1], !.prior = data]
          IN  IF verdict # "ok"
              THEN /\ last' = [event EXCEPT !.result = verdict, !.out = data]
                   /\ Finish(s, "error", opponent)
                   /\ UNCHANGED <<files, cache>>
              ELSE /\ Len(data.rows) < maxrows
                   /\ files' = save_data(concat(data, row), player_name, files)
                   /\ cache' = cache_clear
                   /\ last' = [event EXCEPT !.result = "ok", !.out = concat(data, row)]
                   /\ Finish(s, "added", opponent)

(***************************************************************************)
(* view_stats, lines 333-350: a run with no event renders the summary, the *)
(* trend plots and the five most recent matches.                           *)
(***************************************************************************)
view_stats(s) ==
    /\ sess[s].pc = "loaded"
    /\ LET data == sess[s].data
           summary == show_stats_summary(data, sess[s].position)
           orders == sort_values(plot_stat_trends(data))
           event == [NoLast EXCEPT !.op = "view", !.s = s, !.player = sess[s].player,
                                   !.position = sess[s].position, !.n = RecentPlayer,
                                   !.summary = summary]
       IN  IF IsEmpty(data)
           THEN last' = [event EXCEPT !.result = "No match data available yet"]
           ELSE \E order \in orders :
                   last' = [event EXCEPT !.result = "ok", !.recent = head(order, RecentPlayer)]
    /\ Finish(s, "", "")
    /\ UNCHANGED <<files, cache>>

(***************************************************************************)
(* manage_matches, lines 352-408.  Every row of the sorted data gets an    *)
(* expander keyed by its index label, holding the edit widgets and a       *)
(* delete button.  The data is the frame view_stats has just rendered:     *)
(* its date column went through plot_stat_trends.                          *)
(***************************************************************************)
\* lines 373-400: the values of the edit widgets of one row
edited_row(position, edited_date, edited_opponent, edited_minutes, edited_stats) ==
    [c \in Range(BaseColumns) \cup Range(get_position_config[position]) |->
       IF c = "date" THEN StrV(strftime(edited_date))
       ELSE IF c = "opponent" THEN StrV(edited_opponent)
       ELSE IF c = "minutes_played" THEN IntV(edited_minutes)
       ELSE IntV(edited_stats[c])]

\* an edit widget of row idx is changed: the run computes the edited values
\* and ends; no line of manage_matches stores them
manage_matches_edit(s, dates, opponents, minutes, statvalues) ==
    /\ sess[s].pc = "loaded"
    /\ ~IsEmpty(sess[s].data)
    /\ \E idx \in Labels(sess[s].data), edited_date \in dates, edited_opponent \in opponents,
          edited_minutes \in minutes, edited_stats \in StatInputs(sess[s].position, statvalues) :
          last' = [NoLast EXCEPT !.op = "edit", !.result = "ok", !.s = s,
                                 !.player = sess[s].player, !.position = sess[s].position,
                                 !.index = idx,
                                 !.record = edited_row(sess[s].position, edited_date,
                                                       edited_opponent, edited_minutes,
                                                       edited_stats),
                                 !.prior = sess[s].data]
    /\ Finish(s, "", "")
    /\ UNCHANGED <<files, cache>>

\* the delete button with key delete_{idx} is clicked, possibly on a page
\* rendered from older data; the button exists in this run only if idx
\* labels a row of the loaded data
manage_matches_delete(s, maxrows) ==
    /\ sess[s].pc = "loaded"
    /\ \E idx \in 0..(maxrows - 1) :
          LET data == plot_stat_trends(sess[s].data)
              event == [NoLast EXCEPT !.op = "delete", !.s = s, !.player = sess[s].player,
                                      !.position = sess[s].position, !.index = idx,
                                      !.prior = sess[s].data]
              done == delete_match(data, idx, sess[s].player, files, cache)
          IN  IF IsEmpty(data) \/ done.raised
              THEN /\ last' = [event EXCEPT !.result = "no such row", !.out = data]
                   /\ Finish(s, "", "")
                   /\ UNCHANGED <<files, cache>>
              ELSE /\ files' = done.files
                   /\ cache' = done.cache
                   /\ last' = [event EXCEPT !.result = "ok", !.out = done.data]
                   /\ Finish(s, "deleted", FormatCell(sess[s].data.rows[idx + 1]["opponent"]))

(***************************************************************************)
(* coach_view, lines 232-252, for one selected player: both tabs load the  *)
(* player's data under the title-cased name and show its recent matches.   *)
(***************************************************************************)
coach_tab(s, op, n) ==
    /\ sess[s].pc = "idle"
    /\ \E player \in get_all_players(files) :
          LET loaded == load_data(player, files, cache)
              orders == sort_values(loaded.data)
              event == [NoLast EXCEPT !.op = op, !.result = "ok", !.s = s,
                                      !.player = player, !.n = n]
          IN  /\ cache' = loaded.cache
              /\ \E order \in orders : last' = [event EXCEPT !.recent = head(order, n)]
    /\ UNCHANGED <<files, sess>>

\* lines 206-209
show_team_overview(s) == coach_tab(s, "team", RecentPlayer)

\* lines 227-230
show_individual_stats(s) == coach_tab(s, "individual", RecentCoach)

(***************************************************************************)
(* Inputs of the model.                                                    *)
(***************************************************************************)
ModelPositions == {"Goalkeeper", "Center Back"}
MatchDates == {Date(2024, 3, 1)}
Opponents == {"", "Rivals FC", "NA"}
Minutes == {0, 90}
StatValues == {4}
EditDates == {Date(2024, 3, 8)}
EditOpponents == {"United"}
EditMinutes == {45}
EditStatValues == {7}

(***************************************************************************)
(* Spec: one session; its script runs follow one another.                  *)
(***************************************************************************)
Next ==
    \E s \in {1} :
       \/ player_view(s, SidebarNames, ModelPositions)
       \/ add_match_view(s, MatchDates, Opponents, Minutes, StatValues, MaxRows)
       \/ view_stats(s)
       \/ manage_matches_edit(s, EditDates, EditOpponents, EditMinutes, EditStatValues)
       \/ manage_matches_delete(s, MaxRows)

Spec == Init /\ [][Next]_vars

(***************************************************************************)
(* SpecRace: two sessions on the same player.  Their script runs           *)
(* interleave between player_view's load and the event's save.             *)
(***************************************************************************)
RaceOpponent == [s \in Sessions |-> IF s = 1 THEN "Rivals FC" ELSE "United"]

NextRace ==
    \E s \in Sessions :
       \/ player_view(s, SidebarNames, {"Goalkeeper"})
       \/ add_match_view(s, MatchDates, {RaceOpponent[s]}, {90}, StatValues, MaxRaceRows)
       \/ manage_matches_delete(s, MaxRaceRows)

SpecRace == Init /\ [][NextRace]_vars

(***************************************************************************)
(* SpecRecent: the recent-matches views over stored collections.  A        *)
(* collection is what add_match_view leaves on disk after the matches of a *)
(* sequence of dates were added one script run after the other.            *)
(***************************************************************************)
RECURSIVE StoredFile(_)
StoredFile(dates) ==
    IF dates = <<>> THEN NoFile
    ELSE LET before == [f \in FileNames |-> StoredFile(SubSeq(dates, 1, Len(dates) - 1))]
             loaded == load_data_file("jane doe", before)
             data == IF loaded.isNone THEN empty_frame("Goalkeeper") ELSE loaded
             stats == [c \in Range(get_position_config["Goalkeeper"]) |-> 0]
         IN  to_csv(concat(data, new_match(dates[Len(dates)], "Rivals FC", 90, stats,
                                           "Goalkeeper")))

DateSeqs == UNION {[1..k -> AllDates] : k \in 0..MaxRecentLen}

InitRecent ==
    /\ files \in {[f \in FileNames |-> StoredFile(dates)] : dates \in DateSeqs}
    /\ cache = cache_clear
    /\ sess = [s \in Sessions |-> IdleSession]
    /\ last = NoLast

\* one page is rendered over each stored collection
NextRecent ==
    \E s \in {1} :
       \/ last.op = "none" /\ player_view(s, SidebarNames, {"Goalkeeper"})
       \/ last.op = "none" /\ view_stats(s)
       \/ last.op = "none" /\ show_team_overview(s)
       \/ last.op = "none" /\ show_individual_stats(s)

SpecRecent == InitRecent /\ [][NextRecent]_vars

(***************************************************************************)
(* Properties.                                                             *)
(***************************************************************************)
\* Python's ==, cell by cell: 4 == 4.0; two missing values count as the same
SameValue(a, b) == (IsNum(a) /\ IsNum(b) /\ a.n = b.n) \/ a = b

SameRow(r1, r2) == DOMAIN r1 = DOMAIN r2 /\ \A c \in DOMAIN r1 : SameValue(r1[c], r2[c])

total_matches(data) == Len(data.rows)

\* the opponent cells of a file, top to bottom
OpponentTexts(file) ==
    [i \in 1..Len(file.lines) |-> file.lines[i][ColumnIndex(file.header, "opponent")]]

\* a sequence without its element at position k
Without(seq, k) == [i \in 1..(Len(seq) - 1) |-> IF i < k THEN seq[i] ELSE seq[i + 1]]

StoredData == load_data_file("jane doe", files)

\* C1: a submitted add-match form with an empty opponent or with 0 minutes is
\* rejected with an error, and the step changes neither the player's file
\* (nothing is saved, no row is added, total_matches stays) nor the cache.
C1_InvalidAddRejected ==
    [][\A s \in Sessions :
          (/\ sess[s].pc = "loaded"
           /\ sess'[s].pc = "idle"
           /\ last'.op = "add"
           /\ (last'.record["opponent"] = StrV("") \/ last'.record["minutes_played"] = IntV(0)))
          => /\ last'.result # "ok"
             /\ sess'[s].reported.kind = "error"
             /\ files' = files
             /\ cache' = cache
             /\ total_matches(last'.out) = total_matches(sess[s].data)]_vars

\* C1 witness: a form with 0 minutes was rejected while the player had a
\* stored match.
C1_Witness ==
    /\ last.op = "add"
    /\ last.result = "Please enter minutes played"
    /\ last.record["minutes_played"] = IntV(0)
    /\ files[Filename[last.player]].exists
    /\ Len(files[Filename[last.player]].lines) = 1

\* C2 (as claimed): the load that follows a successful append returns the
\* prior rows in their order and, last, a row equal to the appended record
\* field for field: the same fields with the same values.
C2_RoundTrip ==
    \A s \in Sessions :
       (/\ sess[s].pc = "loaded"
        /\ last.op = "add"
        /\ last.result = "ok"
        /\ Filename[sess[s].player] = Filename[last.player])
       => LET data == sess[s].data
              n == Len(data.rows)
          IN  /\ n = Len(last.prior.rows) + 1
              /\ SameRow(data.rows[n], last.record)
              /\ \A i \in 1..(n - 1) : SameRow(data.rows[i], last.prior.rows[i])

\* C3: whenever the memo of load_data holds a value for a player name, that
\* value is what load_data would read from the file as it is now; a
\* successful append or delete leaves no older value behind.
C3_CacheNeverStale ==
    \A name \in PlayerNames : cache[name].hit => cache[name].val = load_data_file(name, files)

\* C3 witness: after a successful delete the next run loaded the player's
\* data again, and the memo holds the one remaining match.
C3_Witness ==
    /\ last.op = "delete"
    /\ last.result = "ok"
    /\ sess[1].pc = "loaded"
    /\ cache[sess[1].player].hit
    /\ total_matches(cache[sess[1].player].val) = 1
    /\ total_matches(last.prior) = 2

\* C4 (as claimed): after the edit widgets of a row were changed, the stored
\* row at that index holds the edited date, opponent, minutes and statistics.
C4_EditIsStored ==
    last.op = "edit"
    => /\ last.index \in Labels(StoredData)
       /\ \A c \in DOMAIN last.record :
             SameValue(StoredData.rows[last.index + 1][c], last.record[c])

C6_NeverStoredIsMissing ==
    (last.op = "view" /\ last.summary.shown)
    => \A stat \in Range(get_position_config[last.position]) :
          stat \notin Range(files[Filename[last.player]].header)
          => /\ stat \in Range(last.summary.missing)
             /\ stat \notin DOMAIN last.summary.totals

PlayerFile == files[Filename["jane doe"]]

\* the index labels of the stored rows, and the date key of the row labelled i
StoredLabels == 0..(Len(PlayerFile.lines) - 1)
StoredDateKey(i) ==
    DateKey(StrV(PlayerFile.lines[i + 1][ColumnIndex(PlayerFile.header, "date")]))

RecentShown == last.op \in {"view", "team", "individual"} /\ last.result = "ok"

\* C7: a recent-matches view (n = 5 or 3) shows rows of the collection, each
\* once, in descending order of date, and at most min(n, total_matches).
C7_RecentSortedAndBounded ==
    RecentShown
    => /\ Len(last.recent) <= Min(last.n, Len(PlayerFile.lines))
       /\ last.n \in {RecentPlayer, RecentCoach}
       /\ \A i \in DOMAIN last.recent : last.recent[i] \in StoredLabels
       /\ \A i, j \in DOMAIN last.recent :
             i < j => /\ last.recent[i] # last.recent[j]
                      /\ StoredDateKey(last.recent[i]) >= StoredDateKey(last.recent[j])

\* C7 witness: of six stored matches the coach's view shows three, the first
\* of a later date than the last.
C7_Witness ==
    /\ RecentShown
    /\ last.op = "individual"
    /\ Len(PlayerFile.lines) = 6
    /\ Len(last.recent) = 3
    /\ StoredDateKey(last.recent[1]) > StoredDateKey(last.recent[3])

\* C8 (as claimed): among rows of the same date a recent-matches view puts
\* the later inserted row first, and prefers it when it cuts to n rows.
C8_TiesNewestFirst ==
    RecentShown
    => /\ \A i, j \in DOMAIN last.recent :
             (i < j /\ StoredDateKey(last.recent[i]) = StoredDateKey(last.recent[j]))
             => last.recent[i] > last.recent[j]
       /\ \A i \in DOMAIN last.recent :
             \A l \in StoredLabels \ Range(last.recent) :
                StoredDateKey(l) = StoredDateKey(last.recent[i]) => l < last.recent[i]

\* C9: every successful save overwrites the whole file with the saving
\* session's own snapshot plus its change, whatever the file held: after an
\* append the file's matches are the snapshot's and the new one, after a
\* delete the snapshot's without the deleted one.
C9_LastWriteWins ==
    (last.op \in {"add", "delete"} /\ last.result = "ok")
    => LET file == files[Filename[last.player]]
           snapshot == OpponentTexts(to_csv(last.prior))
       IN  /\ file = to_csv(last.out)
           /\ last.op = "add"
              => OpponentTexts(file) = snapshot \o <<FormatCell(last.record["opponent"])>>
           /\ last.op = "delete" => OpponentTexts(file) = Without(snapshot, last.index + 1)

\* C9 witness: a lost update.  Session 2 loaded while the player had no file;
\* session 1's append was then saved and reported; session 2's append has
\* overwritten it: the file holds session 2's match alone.
C9_Witness ==
    /\ sess[1].reported = [kind |-> "added", opponent |-> RaceOpponent[1]]
    /\ sess[2].reported = [kind |-> "added", opponent |-> RaceOpponent[2]]
    /\ last.op = "add"
    /\ last.result = "ok"
    /\ last.s = 2
    /\ last.prior = empty_frame("Goalkeeper")
    /\ OpponentTexts(files[Filename[last.player]]) = <<RaceOpponent[2]>>

\* C10 (as claimed): every row of every player file has a non-empty opponent
\* and minutes_played > 0.
C10_StoredRecordsValid ==
    \A f \in FileNames :
       files[f].exists
       => \A i \in 1..Len(files[f].lines) :
             LET line == files[f].lines[i]
                 minutes == line[ColumnIndex(files[f].header, "minutes_played")]
             IN  /\ line[ColumnIndex(files[f].header, "opponent")] # ""
                 /\ IsIntText(minutes)
                 /\ TextNumber[minutes] > 0

====
